---- MODULE Spec2Model ----
(***************************************************************************)
(* AIDeployer build pipeline: the generation fallback manager              *)
(* (app/services/llm/manager.py), the repository sync engine               *)
(* (app/services/github/github_service.py), the deployment confirmation    *)
(* service (app/services/deployment.py) and the request orchestrator       *)
(* (app/api/endpoints.py).                                                 *)
(*                                                                         *)
(* Every per-run variable is a function over Runs: a run is one background *)
(* execution of process_build_request.  pc[r] is the position of run r in  *)
(* the code; "off" is a run that was never admitted.                       *)
(***************************************************************************)
EXTENDS Integers, Sequences, FiniteSets, TLC

VARIABLES
    keys,     \* settings.*_api_key: provider name -> credential ("" is unset)
    prefs,    \* settings.model_preferences
    repo,     \* the repository on the host: [exists, commits, branch]
    inbox,    \* the POSTs the evaluator endpoint has received, in order
    latency,  \* the durations, in seconds, a reachability check may take
    pc,       \* run -> position in the code
    req,      \* run -> BuildRequestSchema
    llm,      \* run -> locals of generate_with_fallback (and its call log)
    files,    \* run -> the files dict of process_build_request
    push,     \* run -> locals of push_files (and its write log)
    poll,     \* run -> locals of wait_for_pages_deployment
    notify,   \* run -> locals of notify_evaluation (and its attempt log)
    out       \* run -> commit_sha, pages_url and the exception absorbed, if any

vars == <<keys, prefs, repo, inbox, latency, pc, req, llm, files, push, poll, notify, out>>

Runs == {1, 2}

(***************************************************************************)
(* Configuration: app/config.py and LLMManager.__init__                    *)
(***************************************************************************)
Providers == {"openrouter", "anthropic", "openai", "gemini"}

DefaultPreferences ==
    << "anthropic/claude-opus-4.1", "claude-opus-4-1", "gpt-5",
       "google/gemini-2.5-pro", "gemini-2.5-pro" >>

KnownModels == { DefaultPreferences[i] : i \in 1..Len(DefaultPreferences) }

model_mapping ==
    [ m \in KnownModels |->
        CASE m = "anthropic/claude-opus-4.1" -> << "openrouter" >>
          [] m = "claude-opus-4-1"           -> << "anthropic" >>
          [] m = "gpt-5"                     -> << "openrouter", "openai" >>
          [] m = "google/gemini-2.5-pro"     -> << "openrouter" >>
          [] m = "gemini-2.5-pro"            -> << "gemini" >> ]

\* The preference lists the model is run with: the default of config.py, and
\* environment overrides with a reordering, a model the mapping does not know
\* and a model listed twice.
PrefChoices ==
    { DefaultPreferences,
      << "gpt-5", "claude-opus-4-1" >>,
      << "no-such-model", "gemini-2.5-pro", "gpt-5" >>,
      << "gpt-5", "gpt-5" >> }

\* self.model_mapping.get(model, [])
available_providers(model) ==
    IF model \in DOMAIN model_mapping THEN model_mapping[model] ELSE << >>

\* _initialize_providers: a provider object exists iff its key is truthy.
initialize_providers(k) == { p \in Providers : k[p] # "" }

\* LLMProvider.is_available: bool(self.api_key)
is_available(k, p) == k[p] # ""

\* The two guards of the inner loop: "provider_name not in self.providers"
\* and "not provider.is_available()".
Usable(k, p) == p \in initialize_providers(k) /\ is_available(k, p)

\* The order in which the nested loops of generate_with_fallback visit
\* (model, provider) pairs: models in preference order, each model's providers
\* in mapping order.
RECURSIVE CandidatesFrom(_, _)
CandidatesFrom(ps, k) ==
    IF k > Len(ps) THEN << >>
    ELSE LET pv == available_providers(ps[k])
         IN  [ i \in 1..Len(pv) |-> [model |-> ps[k], provider |-> pv[i]] ]
             \o CandidatesFrom(ps, k + 1)

Candidates(ps) == CandidatesFrom(ps, 1)

\* stop_after_attempt(3) on generate_with_fallback
CascadeAttempts == 3

(***************************************************************************)
(* Values                                                                  *)
(***************************************************************************)
None == "None"

MaxRound == 2

\* File contents and other texts are sequences of text segments, so that a
\* text built from another one (an updated readme) is a longer sequence.

\* str(request.round)
Str(n) == CASE n = 0 -> << "0" >> [] n = 1 -> << "1" >> [] n = 2 -> << "2" >>
            [] n = 3 -> << "3" >> [] OTHER -> << "n" >>

EmptyTree == [ p \in {} |-> << >> ]

\* settings.secret_token
SecretToken == "s3cret"

\* task and email are sequences of characters; attachments is their number.
\* The requests of the pipeline specifications were all admitted.
Requests ==
    [ secret : {SecretToken},
      task : { << "t", "_", "1" >> },
      email : { << "a", ".", "b", "@", "x", ".", "y" >> },
      round : 1..MaxRound,
      nonce : {"n-1"}, evaluation_url : {"https://eval.example/notify"},
      attachments : {0, 1} ]

\* What a client may send to /build: the secret is the right one or not.
Submissions ==
    Requests \cup { [ q EXCEPT !.secret = "guess" ] : q \in Requests }

NoRequest ==
    [ secret |-> None, task |-> << >>, email |-> << >>, round |-> 0, nonce |-> None,
      evaluation_url |-> None, attachments |-> 0 ]

NoResponse == [ content |-> EmptyTree, model |-> None, provider |-> None ]

LlmIdle == [ attempt |-> 0, i |-> 0, calls |-> << >>, response |-> NoResponse ]

(***************************************************************************)
(* Scheduling                                                              *)
(***************************************************************************)
\* The runs share one event loop. Only an awaited call gives the loop to
\* another run, and the calls of GitHubService do not await: from the return
\* of an awaited call to the next one a run is not interleaved with others.
Awaiting ==
    { "off", "received", "rejected", "start", "llm", "settle", "poll",
      "poll_sleep", "notify", "done", "absorbed" }

\* Run r, resumed from an awaited call, gets the loop.
Scheduled(r) == \A q \in Runs \ {r} : pc[q] \in Awaiting

\* What a generation reply parses to: a mapping from file path to content.
\* The model may name any of these paths, the reserved key "round" included.
GenPaths == {"index.html", "round"}

\* The text a model writes for a file in round n.
GenContent(n) == CASE n = 1 -> << "generated in round 1" >>
                   [] n = 2 -> << "generated in round 2" >>
                   [] OTHER -> << "generated in a later round" >>

Replies(n) == UNION { [ S -> {GenContent(n)} ] : S \in SUBSET GenPaths }

(***************************************************************************)
(* LLMManager.generate_with_fallback                                       *)
(*   pc = "llm"          in the nested loops, about to visit candidate i   *)
(*   pc = "llm_returned" a response was returned to the caller             *)
(*   pc = "llm_failed"   tenacity gave up: the call raised                 *)
(* llm[r].calls is the log of provider.generate calls of this invocation.  *)
(***************************************************************************)
LlmEnter == [ attempt |-> 1, i |-> 1, calls |-> << >>, response |-> NoResponse ]

Cand(r) == Candidates(prefs)[llm[r].i]

InLoop(r) ==
    /\ pc[r] = "llm"
    /\ Scheduled(r)
    /\ llm[r].i <= Len(Candidates(prefs))

\* lines 62-63 and 66-67: continue without calling the provider
LLMSkip(r) ==
    /\ InLoop(r)
    /\ ~Usable(keys, Cand(r).provider)
    /\ llm' = [llm EXCEPT ![r].i = @ + 1]
    /\ UNCHANGED <<keys, prefs, latency, repo, inbox, pc, req, files, push, poll, notify, out>>

LogCall(r, ok) ==
    Append(llm[r].calls,
           [ attempt |-> llm[r].attempt, i |-> llm[r].i,
             model |-> Cand(r).model, provider |-> Cand(r).provider, ok |-> ok ])

\* LLMCallOk without the return of line 78: the response is kept and the loop
\* goes on to the next candidate.
LLMCallOk_NoReturn(r) ==
    /\ InLoop(r)
    /\ Usable(keys, Cand(r).provider)
    /\ \E c \in Replies(req[r].round) :
         llm' = [llm EXCEPT ![r].calls = LogCall(r, TRUE),
                            ![r].i = @ + 1,
                            ![r].response =
                                [ content |-> c, model |-> Cand(r).model,
                                  provider |-> Cand(r).provider ]]
    /\ UNCHANGED <<keys, prefs, latency, repo, inbox, pc, req, files, push, poll, notify, out>>

\* lines 69-78: provider.generate returned; return its response
LLMCallOk(r) ==
    /\ InLoop(r)
    /\ Usable(keys, Cand(r).provider)
    /\ \E c \in Replies(req[r].round) :
         llm' = [llm EXCEPT ![r].calls = LogCall(r, TRUE),
                            ![r].response =
                                [ content |-> c, model |-> Cand(r).model,
                                  provider |-> Cand(r).provider ]]
    /\ pc' = [pc EXCEPT ![r] = "llm_returned"]
    /\ UNCHANGED <<keys, prefs, latency, repo, inbox, req, files, push, poll, notify, out>>

\* LLMCallFail without the handler of lines 79-81: the exception of
\* provider.generate leaves both loops and ends the pass.
LLMCallFail_EndsPass(r) ==
    /\ InLoop(r)
    /\ Usable(keys, Cand(r).provider)
    /\ llm' = [llm EXCEPT ![r].calls = LogCall(r, FALSE),
                          ![r].i = Len(Candidates(prefs)) + 1]
    /\ UNCHANGED <<keys, prefs, latency, repo, inbox, pc, req, files, push, poll, notify, out>>

\* lines 79-81: provider.generate raised; log and continue
LLMCallFail(r) ==
    /\ InLoop(r)
    /\ Usable(keys, Cand(r).provider)
    /\ llm' = [llm EXCEPT ![r].calls = LogCall(r, FALSE), ![r].i = @ + 1]
    /\ UNCHANGED <<keys, prefs, latency, repo, inbox, pc, req, files, push, poll, notify, out>>

\* LLMRetry with a stop condition that lets one more pass through.
LLMRetry_OneMore(r) ==
    /\ pc[r] = "llm"
    /\ Scheduled(r)
    /\ llm[r].i > Len(Candidates(prefs))
    /\ llm[r].attempt <= CascadeAttempts
    /\ llm' = [llm EXCEPT ![r].attempt = @ + 1, ![r].i = 1]
    /\ UNCHANGED <<keys, prefs, latency, repo, inbox, pc, req, files, push, poll, notify, out>>

\* line 83 under @retry: the pass raised and tenacity runs the function again
LLMRetry(r) ==
    /\ pc[r] = "llm"
    /\ Scheduled(r)
    /\ llm[r].i > Len(Candidates(prefs))
    /\ llm[r].attempt < CascadeAttempts
    /\ llm' = [llm EXCEPT ![r].attempt = @ + 1, ![r].i = 1]
    /\ UNCHANGED <<keys, prefs, latency, repo, inbox, pc, req, files, push, poll, notify, out>>

\* line 83 under @retry: the last pass raised and tenacity raises RetryError
LLMGiveUp(r) ==
    /\ pc[r] = "llm"
    /\ Scheduled(r)
    /\ llm[r].i > Len(Candidates(prefs))
    /\ llm[r].attempt >= CascadeAttempts
    /\ pc' = [pc EXCEPT ![r] = "llm_failed"]
    /\ UNCHANGED <<keys, prefs, latency, repo, inbox, req, llm, files, push, poll, notify, out>>

LLMNext(r) ==
    \/ LLMSkip(r)
    \/ LLMCallOk(r)
    \/ LLMCallFail(r)
    \/ LLMRetry(r)
    \/ LLMGiveUp(r)


(***************************************************************************)
(* CodeGenerator: what generate_application and update_application do with *)
(* the parsed reply                                                        *)
(***************************************************************************)
Put(f, p, c) == [ q \in DOMAIN f \cup {p} |-> IF q = p THEN c ELSE f[q] ]

\* The file names a readme lists, in one fixed order.
PathOrder ==
    << ".init", "LICENSE", "README.md", "index.html", "logo.png", "round",
       "script.js" >>

_generate_default_html(rq) == << "default page" >> \o rq.task

_generate_mit_license == << "MIT License" >>

_generate_readme(rq, f) ==
    << "# readme" >> \o rq.task
    \o SelectSeq(PathOrder, LAMBDA p : p \in DOMAIN f)
    \o << "## License", "MIT, see LICENSE", "round", Str(rq.round)[1] >>

\* generate_application, lines 64-77
generate_application(parsed, rq) ==
    LET f1 == IF "index.html" \in DOMAIN parsed THEN parsed
              ELSE Put(parsed, "index.html", _generate_default_html(rq))
        f2 == IF "README.md" \in DOMAIN f1 THEN f1
              ELSE Put(f1, "README.md", _generate_readme(rq, f1))
    IN  IF "LICENSE" \in DOMAIN f2 THEN f2
        ELSE Put(f2, "LICENSE", _generate_mit_license)

Positions(c, seg) == { k \in 1..Len(c) : c[k] = seg }

Min(S) == CHOOSE x \in S : \A y \in S : x <= y

\* _update_readme: the update section goes before the first "## License"
\* heading, followed by the heading and the text up to the next such heading
\* (parts[1] of the split), or at the end when there is no such heading.
_update_readme(rq, c) ==
    LET update == << "## Round Updates", Str(rq.round)[1] >>
        at     == Positions(c, "## License")
    IN  IF at = {} THEN c \o update
        ELSE LET k    == Min(at)
                 rest == at \ {k}
                 stop == IF rest = {} THEN Len(c) ELSE Min(rest) - 1
             IN  SubSeq(c, 1, k - 1) \o update \o << "## License" >>
                 \o SubSeq(c, k + 1, stop)

\* update_application, lines 251-262
update_application(parsed, existing, rq) ==
    LET keep   == { q \in DOMAIN existing : q \notin DOMAIN parsed /\ q # "README.md" }
        merged == [ q \in DOMAIN parsed \cup keep |->
                      IF q \in DOMAIN parsed THEN parsed[q] ELSE existing[q] ]
    IN  IF "README.md" \in DOMAIN merged
        THEN Put(merged, "README.md", _update_readme(rq, merged["README.md"]))
        ELSE merged

(***************************************************************************)
(* The repository host, as GitHubService uses it.                          *)
(* repo.commits is the object store: a commit's sha is its index.          *)
(* repo.branch is the default branch reference: 0 when the branch does not *)
(* exist (a repository without commits), else the sha it points to.        *)
(***************************************************************************)
NoRepo == [ exists |-> FALSE, commits |-> << >>, branch |-> 0, pages |-> FALSE ]

NewRepo == [ exists |-> TRUE, commits |-> << >>, branch |-> 0, pages |-> FALSE ]

PlaceholderPath == ".init"

PlaceholderContent == << "Initialized by application" >>

InitMessage == [ text |-> "Initialize repository", round |-> << >> ]

\* A repository with this name that somebody made by hand.
HandMadeRepo ==
    [ exists |-> TRUE,
      commits |-> << [ parent |-> 0,
                       tree |-> [ p \in {"logo.png"} |-> << "binary", "image" >> ],
                       message |-> [ text |-> "first commit", round |-> << >> ] ] >>,
      branch |-> 1, pages |-> FALSE ]

TreeOf(rp, sha) == IF sha = 0 THEN EmptyTree ELSE rp.commits[sha].tree

\* What a reader of the default branch sees.
TipTree(rp) == TreeOf(rp, rp.branch)

Overlay(base, upd) ==
    [ p \in DOMAIN base \cup DOMAIN upd |->
        IF p \in DOMAIN upd THEN upd[p] ELSE base[p] ]

\* push_files line 42
commit_message(f) ==
    [ text |-> "Deploy application - Round",
      round |-> IF "round" \in DOMAIN f THEN f["round"] ELSE << "1" >> ]

\* tree_elements without the test of line 46: every key becomes a tree entry.
tree_elements_all(f) == f

\* push_files lines 45-51
tree_elements(f) == [ p \in DOMAIN f \ {"round"} |-> f[p] ]

\* create_git_tree that stores one entry of the list only.
create_git_tree_one_entry(elements, base_tree) ==
    IF DOMAIN elements = {} THEN base_tree
    ELSE LET p == CHOOSE q \in DOMAIN elements : TRUE
         IN  [ q \in DOMAIN base_tree \cup {p} |-> IF q = p THEN elements[p] ELSE base_tree[q] ]

\* create_git_tree called without base_tree: the tree holds the entries only.
create_git_tree_no_base(elements, base_tree) == elements

\* repo.create_git_tree(tree_elements, base_tree)
create_git_tree(elements, base_tree) == Overlay(base_tree, elements)

\* create_git_commit with an empty list of parents.
create_git_commit_orphan(rp, message, tree, parent) ==
    [ rp EXCEPT !.commits =
        Append(@, [ parent |-> 0, tree |-> tree, message |-> message ]) ]

\* repo.create_git_commit(message, tree, [parent]): the store with the commit added
create_git_commit(rp, message, tree, parent) ==
    [ rp EXCEPT !.commits =
        Append(@, [ parent |-> parent, tree |-> tree, message |-> message ]) ]

\* repo.create_file(".init", ...): a commit on the branch that adds the file,
\* the branch created when it did not exist
create_file(rp) ==
    [ create_git_commit(rp, InitMessage,
                        Put(TipTree(rp), PlaceholderPath, PlaceholderContent),
                        rp.branch)
      EXCEPT !.branch = Len(rp.commits) + 1 ]

\* The parents of line 87 make a chain: a is b or a commit b descends from.
RECURSIVE IsAncestor(_, _, _)
IsAncestor(rp, a, b) ==
    IF b = 0 THEN FALSE
    ELSE IF a = b THEN TRUE
    ELSE IsAncestor(rp, a, rp.commits[b].parent)

\* ref.edit(sha) without force: the host moves the branch only forward.
ref_edit_fast_forward(rp, sha) ==
    IF rp.branch = 0 \/ IsAncestor(rp, rp.branch, sha)
    THEN [ rp EXCEPT !.branch = sha ]
    ELSE rp

\* ref.edit(sha, force=True)
ref_edit(rp, sha) == [ rp EXCEPT !.branch = sha ]

PushIdle ==
    [ tree_elements |-> EmptyTree, message |-> InitMessage, ref |-> 0,
      base_commit |-> 0, new_tree |-> EmptyTree, new_commit |-> 0,
      prior |-> 0, bootstrapped |-> FALSE, writes |-> << >> ]

OutIdle ==
    [ path |-> None, found |-> FALSE, existing |-> EmptyTree, commit_sha |-> 0,
      pages_url |-> << >>, error |-> None, response |-> None, repo_name |-> << >> ]

(***************************************************************************)
(* GitHubService.push_files, one action per call to the host               *)
(*   pc = "push"          about to call push_files (files holds "round")   *)
(*   pc = "push_ref"      line 56, "push_base"   line 57                   *)
(*   pc = "push_init"     line 67                                          *)
(*   pc = "push_reref"    line 79, "push_rebase" line 80                   *)
(*   pc = "push_tree"     line 84, "push_commit" line 87                   *)
(*   pc = "push_edit"     line 90                                          *)
(*   pc = "published"     the sha was returned                             *)
(*   pc = "push_failed"   the call raised (lines 95-97)                    *)
(* push[r].writes logs the writes of the call; push[r].prior is the branch *)
(* reference when the call began.                                          *)
(***************************************************************************)
PushCallSites ==
    { "push_ref", "push_base", "push_init", "push_reref", "push_rebase",
      "push_tree", "push_commit", "push_edit" }

\* lines 41-51
PushBegin(r) ==
    /\ pc[r] = "push"
    /\ push' = [push EXCEPT ![r] =
                  [ PushIdle EXCEPT
                      !.tree_elements = tree_elements(files[r]),
                      !.message = commit_message(files[r]),
                      !.prior = repo.branch ]]
    /\ pc' = [pc EXCEPT ![r] = "push_ref"]
    /\ UNCHANGED <<keys, prefs, latency, repo, inbox, req, llm, files, poll, notify, out>>

\* line 56: the reference exists and is returned
PushGetRef(r) ==
    /\ pc[r] = "push_ref"
    /\ repo.branch # 0
    /\ push' = [push EXCEPT ![r].ref = repo.branch]
    /\ pc' = [pc EXCEPT ![r] = "push_base"]
    /\ UNCHANGED <<keys, prefs, latency, repo, inbox, req, llm, files, poll, notify, out>>

\* line 57
PushGetCommit(r) ==
    /\ pc[r] = "push_base"
    /\ push' = [push EXCEPT ![r].base_commit = push[r].ref]
    /\ pc' = [pc EXCEPT ![r] = "push_tree"]
    /\ UNCHANGED <<keys, prefs, latency, repo, inbox, req, llm, files, poll, notify, out>>

\* lines 59-63: get_git_ref or get_git_commit raised a GithubException, because
\* the branch does not exist (409 / 404) or for any other error status of the host
PushResolveGithubException(r) ==
    /\ pc[r] \in {"push_ref", "push_base"}
    /\ pc' = [pc EXCEPT ![r] = "push_init"]
    /\ UNCHANGED <<keys, prefs, latency, repo, inbox, req, llm, files, push, poll, notify, out>>

\* lines 67-72: the placeholder is written
PushCreateFile(r) ==
    /\ pc[r] = "push_init"
    /\ PlaceholderPath \notin DOMAIN TipTree(repo)
    /\ repo' = create_file(repo)
    /\ push' = [push EXCEPT ![r].bootstrapped = TRUE,
                            ![r].writes = Append(@, "create_file")]
    /\ pc' = [pc EXCEPT ![r] = "push_reref"]
    /\ UNCHANGED <<keys, prefs, latency, inbox, req, llm, files, poll, notify, out>>

\* lines 73-76: the host refuses the placeholder because the path exists on
\* the branch (422); the exception is logged and raised again
PushCreateFileExists(r) ==
    /\ pc[r] = "push_init"
    /\ PlaceholderPath \in DOMAIN TipTree(repo)
    /\ pc' = [pc EXCEPT ![r] = "push_failed"]
    /\ out' = [out EXCEPT ![r].error = "create_file: 422 path exists"]
    /\ UNCHANGED <<keys, prefs, latency, repo, inbox, req, llm, files, push, poll, notify>>

\* line 79
PushRefetchRef(r) ==
    /\ pc[r] = "push_reref"
    /\ repo.branch # 0
    /\ push' = [push EXCEPT ![r].ref = repo.branch]
    /\ pc' = [pc EXCEPT ![r] = "push_rebase"]
    /\ UNCHANGED <<keys, prefs, latency, repo, inbox, req, llm, files, poll, notify, out>>

\* line 80
PushRefetchCommit(r) ==
    /\ pc[r] = "push_rebase"
    /\ push' = [push EXCEPT ![r].base_commit = push[r].ref]
    /\ pc' = [pc EXCEPT ![r] = "push_tree"]
    /\ UNCHANGED <<keys, prefs, latency, repo, inbox, req, llm, files, poll, notify, out>>

\* line 84
PushCreateTree(r) ==
    /\ pc[r] = "push_tree"
    /\ push' = [push EXCEPT
                  ![r].new_tree = create_git_tree(push[r].tree_elements,
                                                  TreeOf(repo, push[r].base_commit)),
                  ![r].writes = Append(@, "create_git_tree")]
    /\ pc' = [pc EXCEPT ![r] = "push_commit"]
    /\ UNCHANGED <<keys, prefs, latency, repo, inbox, req, llm, files, poll, notify, out>>

\* line 87
PushCreateCommit(r) ==
    /\ pc[r] = "push_commit"
    /\ repo' = create_git_commit(repo, push[r].message, push[r].new_tree,
                                 push[r].base_commit)
    /\ push' = [push EXCEPT ![r].new_commit = Len(repo.commits) + 1,
                            ![r].writes = Append(@, "create_git_commit")]
    /\ pc' = [pc EXCEPT ![r] = "push_edit"]
    /\ UNCHANGED <<keys, prefs, latency, inbox, req, llm, files, poll, notify, out>>

\* lines 90-93 and endpoints.py line 58: the branch is moved, the sha returned
PushRefEdit(r) ==
    /\ pc[r] = "push_edit"
    /\ repo' = ref_edit(repo, push[r].new_commit)
    /\ push' = [push EXCEPT ![r].writes = Append(@, "ref.edit")]
    /\ out' = [out EXCEPT ![r].commit_sha = push[r].new_commit]
    /\ pc' = [pc EXCEPT ![r] = "published"]
    /\ UNCHANGED <<keys, prefs, latency, inbox, req, llm, files, poll, notify>>

\* lines 95-97: a call to the host raised and nothing inside push_files handles
\* it. In the first try block only an exception that is no GithubException (a
\* transport error) gets here.
PushRaise(r) ==
    /\ pc[r] \in PushCallSites
    /\ pc' = [pc EXCEPT ![r] = "push_failed"]
    /\ out' = [out EXCEPT ![r].error =
                 IF pc[r] \in {"push_ref", "push_base"} THEN "transport error"
                 ELSE "host or transport error"]
    /\ UNCHANGED <<keys, prefs, latency, repo, inbox, req, llm, files, push, poll, notify>>

PushNext(r) ==
    \/ PushBegin(r)
    \/ PushGetRef(r)
    \/ PushGetCommit(r)
    \/ PushResolveGithubException(r)
    \/ PushCreateFile(r)
    \/ PushCreateFileExists(r)
    \/ PushRefetchRef(r)
    \/ PushRefetchCommit(r)
    \/ PushCreateTree(r)
    \/ PushCreateCommit(r)
    \/ PushRefEdit(r)
    \/ PushRaise(r)

\* The exception leaves the function; process_build_request logs it (line 88).
Absorb(r, what) ==
    /\ pc' = [pc EXCEPT ![r] = "absorbed"]
    /\ out' = [out EXCEPT ![r].error = what]


(***************************************************************************)
(* process_build_request up to the publish                                 *)
(*   pc = "start"        the background task was scheduled                 *)
(*   pc = "lookup"       line 33, "get_files" line 47                      *)
(*   pc = "llm..."       inside generate_application / update_application  *)
(*   pc = "create_repo"  line 41, "round" line 55, "push" line 58          *)
(*   pc = "absorbed"     an exception reached line 87                      *)
(***************************************************************************)
\* build_endpoint with add_task before the test of the secret.
BuildEndpointReject_TaskAdded(r) ==
    /\ pc[r] = "received"
    /\ Scheduled(r)
    /\ req[r].secret # SecretToken
    /\ out' = [out EXCEPT ![r].response = "403 Invalid secret"]
    /\ pc' = [pc EXCEPT ![r] = "start"]
    /\ UNCHANGED <<keys, prefs, latency, repo, inbox, req, llm, files, push, poll, notify>>

\* build_endpoint lines 98-102 (pc = "received": the handler is called with
\* the parsed request): the secret is not the configured one. HTTPException
\* is raised before add_task, the client gets 403.
BuildEndpointReject(r) ==
    /\ pc[r] = "received"
    /\ Scheduled(r)
    /\ req[r].secret # SecretToken
    /\ out' = [out EXCEPT ![r].response = "403 Invalid secret"]
    /\ pc' = [pc EXCEPT ![r] = "rejected"]
    /\ UNCHANGED <<keys, prefs, latency, repo, inbox, req, llm, files, push, poll, notify>>

\* build_endpoint lines 105-111: the task is added and the response is
\* returned; the handler awaits nothing, so process_build_request has not
\* taken a step when the response is made.
BuildEndpointAccept(r) ==
    /\ pc[r] = "received"
    /\ Scheduled(r)
    /\ req[r].secret = SecretToken
    /\ out' = [out EXCEPT ![r].response = "200 success"]
    /\ pc' = [pc EXCEPT ![r] = "start"]
    /\ UNCHANGED <<keys, prefs, latency, repo, inbox, req, llm, files, push, poll, notify>>

\* s.split(ch)[0]
Before(s, ch) ==
    LET at == { k \in 1..Len(s) : s[k] = ch }
    IN  IF at = {} THEN s ELSE SubSeq(s, 1, Min(at) - 1)

Replace(s, old, new) == [ k \in 1..Len(s) |-> IF s[k] = old THEN new ELSE s[k] ]

\* endpoints.py line 32
repo_name(rq) ==
    Replace(Replace(rq.task \o << "-" >> \o Before(rq.email, "@"), ".", "-"), "_", "-")

\* lines 22-32: every attachment was fetched and decoded, and the name of
\* the repository is derived
ProcessAttachments(r) ==
    /\ pc[r] = "start"
    /\ Scheduled(r)
    /\ out' = [out EXCEPT ![r].repo_name = repo_name(req[r])]
    /\ pc' = [pc EXCEPT ![r] = "lookup"]
    /\ UNCHANGED <<keys, prefs, latency, repo, inbox, req, llm, files, push, poll, notify>>

\* lines 22-25: fetching or decoding an attachment raised
ProcessAttachmentsRaise(r) ==
    /\ pc[r] = "start"
    /\ Scheduled(r)
    /\ req[r].attachments > 0
    /\ Absorb(r, "attachment error")
    /\ UNCHANGED <<keys, prefs, latency, repo, inbox, req, llm, files, push, poll, notify>>

\* GetRepositoryFound without the test of the round on line 35: a repository
\* that is there is always updated.
GetRepositoryFound_AlwaysUpdate(r) ==
    /\ pc[r] = "lookup"
    /\ repo.exists
    /\ out' = [out EXCEPT ![r].found = TRUE]
    /\ pc' = [pc EXCEPT ![r] = "get_files"]
    /\ UNCHANGED <<keys, prefs, latency, repo, inbox, req, llm, files, push, poll, notify>>

\* lines 33-37 and 45: the repository is there. Round 1 generates, a later
\* round goes on to fetch the files.
GetRepositoryFound(r) ==
    /\ pc[r] = "lookup"
    /\ repo.exists
    /\ out' = [out EXCEPT ![r].found = TRUE,
                          ![r].path = IF req[r].round = 1 THEN "generate" ELSE None]
    /\ llm' = [llm EXCEPT ![r] = IF req[r].round = 1 THEN LlmEnter ELSE @]
    /\ pc' = [pc EXCEPT ![r] = IF req[r].round = 1 THEN "llm" ELSE "get_files"]
    /\ UNCHANGED <<keys, prefs, latency, repo, inbox, req, files, push, poll, notify>>

\* GetRepositoryNone with the repository created at once, before the generation.
GetRepositoryNone_CreateFirst(r) ==
    /\ pc[r] = "lookup"
    /\ ~repo.exists
    /\ repo' = NewRepo
    /\ out' = [out EXCEPT ![r].found = FALSE, ![r].path = "generate"]
    /\ llm' = [llm EXCEPT ![r] = LlmEnter]
    /\ pc' = [pc EXCEPT ![r] = "llm"]
    /\ UNCHANGED <<keys, prefs, latency, inbox, req, files, push, poll, notify>>

\* lines 33-37 with get_repository lines 146-148: 404 gives None; generate
GetRepositoryNone(r) ==
    /\ pc[r] = "lookup"
    /\ ~repo.exists
    /\ out' = [out EXCEPT ![r].found = FALSE, ![r].path = "generate"]
    /\ llm' = [llm EXCEPT ![r] = LlmEnter]
    /\ pc' = [pc EXCEPT ![r] = "llm"]
    /\ UNCHANGED <<keys, prefs, latency, repo, inbox, req, files, push, poll, notify>>

\* get_repository that returns None for every failure of the lookup.
GetRepositoryRaise_AsNone(r) ==
    /\ pc[r] = "lookup"
    /\ out' = [out EXCEPT ![r].found = FALSE, ![r].path = "generate"]
    /\ llm' = [llm EXCEPT ![r] = LlmEnter]
    /\ pc' = [pc EXCEPT ![r] = "llm"]
    /\ UNCHANGED <<keys, prefs, latency, repo, inbox, req, files, push, poll, notify>>

\* get_repository line 149: any other failure is raised
GetRepositoryRaise(r) ==
    /\ pc[r] = "lookup"
    /\ Absorb(r, "get_repository error")
    /\ UNCHANGED <<keys, prefs, latency, repo, inbox, req, llm, files, push, poll, notify>>

\* base64.b64decode(...).decode('utf-8', errors='replace'): text comes back as
\* it is, bytes that are no UTF-8 come back as replacement characters.
Decode(c) == IF Len(c) > 0 /\ c[1] = "binary" THEN << "U+FFFD" >> ELSE c

\* The first k paths of a tree in the order the host lists them.
FirstPaths(tree, k) ==
    LET listed == SelectSeq(PathOrder, LAMBDA p : p \in DOMAIN tree)
    IN  { listed[j] : j \in 1..k }

Listed(tree) == Cardinality(DOMAIN tree)

\* get_files lines 153-169 read the first k files; k is all of them unless a
\* call raised, which line 167 catches. Then update_application is entered.
GetFilesRead(r, k) ==
    /\ pc[r] = "get_files"
    /\ out' = [out EXCEPT
                 ![r].path = "update",
                 ![r].existing =
                     [ p \in FirstPaths(TipTree(repo), k) |-> Decode(TipTree(repo)[p]) ]]
    /\ llm' = [llm EXCEPT ![r] = LlmEnter]
    /\ pc' = [pc EXCEPT ![r] = "llm"]
    /\ UNCHANGED <<keys, prefs, latency, repo, inbox, req, files, push, poll, notify>>

GetFiles(r) == GetFilesRead(r, Listed(TipTree(repo)))

GetFilesPartial(r) == \E k \in 0..(Listed(TipTree(repo)) - 1) : GetFilesRead(r, k)

\* generate_application lines 64-77, then endpoints.py line 40
GenerateDone(r) ==
    /\ pc[r] = "llm_returned"
    /\ out[r].path = "generate"
    /\ files' = [files EXCEPT ![r] = generate_application(llm[r].response.content, req[r])]
    /\ llm' = [llm EXCEPT ![r] = [LlmIdle EXCEPT !.response = llm[r].response]]
    /\ pc' = [pc EXCEPT ![r] = IF out[r].found THEN "round" ELSE "create_repo"]
    /\ UNCHANGED <<keys, prefs, latency, repo, inbox, req, push, poll, notify, out>>

\* update_application lines 251-262
UpdateDone(r) ==
    /\ pc[r] = "llm_returned"
    /\ out[r].path = "update"
    /\ files' = [files EXCEPT ![r] =
                   update_application(llm[r].response.content, out[r].existing, req[r])]
    /\ llm' = [llm EXCEPT ![r] = [LlmIdle EXCEPT !.response = llm[r].response]]
    /\ out' = [out EXCEPT ![r].existing = EmptyTree]
    /\ pc' = [pc EXCEPT ![r] = "round"]
    /\ UNCHANGED <<keys, prefs, latency, repo, inbox, req, push, poll, notify>>

\* generate_with_fallback raised and neither caller handles it: line 87
GenerationFailed(r) ==
    /\ pc[r] = "llm_failed"
    /\ pc' = [pc EXCEPT ![r] = "absorbed"]
    /\ out' = [out EXCEPT ![r].error = "All LLM providers failed",
                          ![r].existing = EmptyTree]
    /\ llm' = [llm EXCEPT ![r] = LlmIdle]
    /\ UNCHANGED <<keys, prefs, latency, repo, inbox, req, files, push, poll, notify>>

\* create_repository lines 19-26
CreateRepository(r) ==
    /\ pc[r] = "create_repo"
    /\ ~repo.exists
    /\ repo' = NewRepo
    /\ pc' = [pc EXCEPT ![r] = "round"]
    /\ UNCHANGED <<keys, prefs, latency, inbox, req, llm, files, push, poll, notify, out>>

\* create_repository without the test of line 28: the 422 of a name that is
\* taken is raised like any other status.
CreateRepositoryExists_Raises(r) ==
    /\ pc[r] = "create_repo"
    /\ repo.exists
    /\ Absorb(r, "create_repository error")
    /\ files' = [files EXCEPT ![r] = EmptyTree]
    /\ llm' = [llm EXCEPT ![r] = LlmIdle]
    /\ UNCHANGED <<keys, prefs, latency, repo, inbox, req, push, poll, notify>>

\* create_repository lines 27-30: 422, the existing repository is used
CreateRepositoryExists(r) ==
    /\ pc[r] = "create_repo"
    /\ repo.exists
    /\ pc' = [pc EXCEPT ![r] = "round"]
    /\ UNCHANGED <<keys, prefs, latency, repo, inbox, req, llm, files, push, poll, notify, out>>

\* create_repository line 31, or get_repo on line 30 raised
CreateRepositoryRaise(r) ==
    /\ pc[r] = "create_repo"
    /\ Absorb(r, "create_repository error")
    /\ files' = [files EXCEPT ![r] = EmptyTree]
    /\ llm' = [llm EXCEPT ![r] = LlmIdle]
    /\ UNCHANGED <<keys, prefs, latency, repo, inbox, req, push, poll, notify>>

\* line 55
AddRound(r) ==
    /\ pc[r] = "round"
    /\ files' = [files EXCEPT ![r] = Put(@, "round", Str(req[r].round))]
    /\ pc' = [pc EXCEPT ![r] = "push"]
    /\ UNCHANGED <<keys, prefs, latency, repo, inbox, req, llm, push, poll, notify, out>>

\* PublishFailed that logs the error of push_files and goes on to enable_pages.
PublishFailed_GoesOn(r) ==
    /\ pc[r] = "push_failed"
    /\ pc' = [pc EXCEPT ![r] = "published"]
    /\ UNCHANGED <<keys, prefs, latency, repo, inbox, req, llm, files, push, poll, notify, out>>

\* push_files raised: line 87. The locals of the run are gone.
PublishFailed(r) ==
    /\ pc[r] = "push_failed"
    /\ files' = [files EXCEPT ![r] = EmptyTree]
    /\ push' = [push EXCEPT ![r] = PushIdle]
    /\ llm' = [llm EXCEPT ![r] = LlmIdle]
    /\ pc' = [pc EXCEPT ![r] = "absorbed"]
    /\ UNCHANGED <<keys, prefs, latency, repo, inbox, req, poll, notify, out>>

PrepareNext(r) ==
    \/ ProcessAttachments(r)
    \/ ProcessAttachmentsRaise(r)
    \/ GetRepositoryFound(r)
    \/ GetRepositoryNone(r)
    \/ GetRepositoryRaise(r)
    \/ GetFiles(r)
    \/ GetFilesPartial(r)
    \/ GenerateDone(r)
    \/ UpdateDone(r)
    \/ GenerationFailed(r)
    \/ CreateRepository(r)
    \/ CreateRepositoryExists(r)
    \/ CreateRepositoryRaise(r)
    \/ AddRound(r)
    \/ PublishFailed(r)

(***************************************************************************)
(* process_build_request after the publish, GitHubService.enable_pages and *)
(* DeploymentService                                                       *)
(*   pc = "published"     line 61, "settle" line 64                        *)
(*   pc = "poll"          the while test of wait_for_pages_deployment      *)
(*   pc = "poll_sleep"    line 52, "poll_returned" the call returned       *)
(*   pc = "notify"        about to POST (line 22), "notify_failed" raised  *)
(*   pc = "done"          line 85                                          *)
(***************************************************************************)
GithubUsername == << "acct" >>

\* The URL without the slash that ends it.
pages_url_no_slash(rq) ==
    << "https://" >> \o GithubUsername \o << ".github.io/" >> \o repo_name(rq)

\* enable_pages lines 135 and 140
pages_url(rq) ==
    << "https://" >> \o GithubUsername \o << ".github.io/" >> \o repo_name(rq) \o << "/" >>

\* EnablePages without the handler of lines 137-140: an exception of the
\* request leaves the function.
EnablePages_Raises(r) ==
    /\ pc[r] = "published"
    /\ \E answer \in {"201", "409", "other status", "exception"} :
         /\ (answer = "201") => ~repo.pages
         /\ (answer = "409") => repo.pages
         /\ repo' = [repo EXCEPT !.pages = @ \/ answer = "201"]
         /\ out' = [out EXCEPT ![r].pages_url = IF answer = "exception" THEN @ ELSE pages_url(req[r]),
                               ![r].error = IF answer = "exception" THEN "enable_pages error" ELSE @]
         /\ pc' = [pc EXCEPT ![r] = IF answer = "exception" THEN "absorbed" ELSE "settle"]
    /\ files' = [files EXCEPT ![r] = EmptyTree]
    /\ push' = [push EXCEPT ![r] = PushIdle]
    /\ llm' = [llm EXCEPT ![r] = LlmIdle]
    /\ UNCHANGED <<keys, prefs, latency, inbox, req, poll, notify>>

\* enable_pages lines 100-140: whatever the host answers, or if a call raises,
\* the URL is returned. files, the reply and the locals of push_files are not
\* read again.
EnablePages(r) ==
    /\ pc[r] = "published"
    /\ \E answer \in {"201", "409", "other status", "exception"} :
         /\ (answer = "201") => ~repo.pages
         /\ (answer = "409") => repo.pages
         /\ repo' = [repo EXCEPT !.pages = @ \/ answer = "201"]
    /\ out' = [out EXCEPT ![r].pages_url = pages_url(req[r])]
    /\ files' = [files EXCEPT ![r] = EmptyTree]
    /\ push' = [push EXCEPT ![r] = PushIdle]
    /\ llm' = [llm EXCEPT ![r] = LlmIdle]
    /\ pc' = [pc EXCEPT ![r] = "settle"]
    /\ UNCHANGED <<keys, prefs, latency, inbox, req, poll, notify>>

\* max_wait=120 on endpoints.py line 80
MaxWait == 120

\* asyncio.sleep(5) on deployment.py line 52
PollInterval == 5

\* The longest a reachability check takes, in seconds.
MaxCheckTime == 2

PollIdle == [ max_wait |-> 0, now |-> 0, last_check |-> 0, result |-> "none" ]

PollEnter(max_wait) == [ PollIdle EXCEPT !.max_wait = max_wait ]

NotifyIdle ==
    [ attempts |-> 0, last |-> 0,
      data |-> [ email |-> << >>, task |-> << >>, round |-> 0, nonce |-> None,
                 repo_url |-> << >>, commit_sha |-> 0, pages_url |-> << >> ] ]

\* endpoints.py lines 67-75
eval_response(rq, sha, url) ==
    [ email |-> rq.email, task |-> rq.task, round |-> rq.round, nonce |-> rq.nonce,
      repo_url |-> << "https://github.com/" >> \o GithubUsername \o << "/" >>
                   \o repo_name(rq),
      commit_sha |-> sha, pages_url |-> url ]

\* Settle that goes to notify_evaluation at once and leaves the wait out.
Settle_SkipPoll(r) ==
    /\ pc[r] = "settle"
    /\ Scheduled(r)
    /\ notify' = [notify EXCEPT ![r] =
                    [ NotifyIdle EXCEPT
                        !.data = eval_response(req[r], out[r].commit_sha, out[r].pages_url) ]]
    /\ pc' = [pc EXCEPT ![r] = "notify"]
    /\ UNCHANGED <<keys, prefs, latency, repo, inbox, req, llm, files, push, poll, out>>

\* endpoints.py lines 64-80: the sleep is over, the notification is prepared
\* and wait_for_pages_deployment is entered (line 41)
Settle(r) ==
    /\ pc[r] = "settle"
    /\ Scheduled(r)
    /\ notify' = [notify EXCEPT ![r] =
                    [ NotifyIdle EXCEPT
                        !.data = eval_response(req[r], out[r].commit_sha, out[r].pages_url) ]]
    /\ poll' = [poll EXCEPT ![r] = PollEnter(MaxWait)]
    /\ pc' = [pc EXCEPT ![r] = "poll"]
    /\ UNCHANGED <<keys, prefs, latency, repo, inbox, req, llm, files, push, out>>

\* poll[r].now is the loop's clock minus start_time.
\* lines 43-48: the test passes, the GET takes d seconds and is answered 200
PollSuccess(r) ==
    /\ pc[r] = "poll"
    /\ Scheduled(r)
    /\ poll[r].now < poll[r].max_wait
    /\ \E d \in latency :
         poll' = [poll EXCEPT ![r].now = @ + d, ![r].last_check = d,
                              ![r].result = "true"]
    /\ pc' = [pc EXCEPT ![r] = "poll_returned"]
    /\ UNCHANGED <<keys, prefs, latency, repo, inbox, req, llm, files, push, notify, out>>

\* PollNotYet with the loop test elapsed <= max_wait.
PollNotYet_Inclusive(r) ==
    /\ pc[r] = "poll"
    /\ Scheduled(r)
    /\ poll[r].now <= poll[r].max_wait
    /\ \E d \in latency :
         poll' = [poll EXCEPT ![r].now = @ + d, ![r].last_check = d]
    /\ pc' = [pc EXCEPT ![r] = "poll_sleep"]
    /\ UNCHANGED <<keys, prefs, latency, repo, inbox, req, llm, files, push, notify, out>>

\* lines 43-50: the test passes, the GET takes d seconds and is answered with
\* another status or raises
PollNotYet(r) ==
    /\ pc[r] = "poll"
    /\ Scheduled(r)
    /\ poll[r].now < poll[r].max_wait
    /\ \E d \in latency :
         poll' = [poll EXCEPT ![r].now = @ + d, ![r].last_check = d]
    /\ pc' = [pc EXCEPT ![r] = "poll_sleep"]
    /\ UNCHANGED <<keys, prefs, latency, repo, inbox, req, llm, files, push, notify, out>>

\* PollSleep with a sleep of no duration: the clock of the loop stands still.
PollSleep_NoDelay(r) ==
    /\ pc[r] = "poll_sleep"
    /\ Scheduled(r)
    /\ pc' = [pc EXCEPT ![r] = "poll"]
    /\ UNCHANGED <<keys, prefs, latency, repo, inbox, req, llm, files, push, poll, notify, out>>

\* line 52
PollSleep(r) ==
    /\ pc[r] = "poll_sleep"
    /\ Scheduled(r)
    /\ poll' = [poll EXCEPT ![r].now = @ + PollInterval]
    /\ pc' = [pc EXCEPT ![r] = "poll"]
    /\ UNCHANGED <<keys, prefs, latency, repo, inbox, req, llm, files, push, notify, out>>

\* lines 43 and 54-55: the test fails
PollTimeout(r) ==
    /\ pc[r] = "poll"
    /\ Scheduled(r)
    /\ poll[r].now >= poll[r].max_wait
    /\ poll' = [poll EXCEPT ![r].result = "false"]
    /\ pc' = [pc EXCEPT ![r] = "poll_returned"]
    /\ UNCHANGED <<keys, prefs, latency, repo, inbox, req, llm, files, push, notify, out>>

PollNext(r) ==
    \/ PollSuccess(r)
    \/ PollNotYet(r)
    \/ PollSleep(r)
    \/ PollTimeout(r)

\* StartNotify that notifies only a deployment the wait has confirmed.
StartNotify_IfReachable(r) ==
    /\ pc[r] = "poll_returned"
    /\ poll[r].result = "true"
    /\ poll' = [poll EXCEPT ![r] = [ PollIdle EXCEPT !.result = poll[r].result ]]
    /\ pc' = [pc EXCEPT ![r] = "notify"]
    /\ UNCHANGED <<keys, prefs, latency, repo, inbox, req, llm, files, push, notify, out>>

\* endpoints.py lines 80-83: the value the wait returned is not assigned and
\* notify_evaluation is called. poll[r].result keeps what the wait returned;
\* its clock is gone.
StartNotify(r) ==
    /\ pc[r] = "poll_returned"
    /\ poll' = [poll EXCEPT ![r] = [ PollIdle EXCEPT !.result = poll[r].result ]]
    /\ pc' = [pc EXCEPT ![r] = "notify"]
    /\ UNCHANGED <<keys, prefs, latency, repo, inbox, req, llm, files, push, notify, out>>

\* stop_after_attempt(5) on notify_evaluation
NotifyAttempts == 5

\* data.model_dump()
model_dump(data) == data

\* The statuses the evaluator answers with.
Statuses == {200, 201, 500}

\* A POST whose body is built again for every attempt and carries its number.
Received_Renumbered(r) ==
    Append(inbox, [ run |-> r,
                    json |-> [ model_dump(notify[r].data) EXCEPT
                                 !.round = notify[r].attempts + 1 ] ])

\* The evaluator receives the POST: json=data.model_dump() on line 24.
Received(r) == Append(inbox, [ run |-> r, json |-> model_dump(notify[r].data) ])

\* AfterFailure with a stop condition that lets one more attempt through.
AfterFailure_OneMore(attempts) == IF attempts <= NotifyAttempts THEN "notify" ELSE "notify_failed"

\* Where notify_evaluation is after a failed attempt: tenacity sleeps and
\* calls again, or raises after the last attempt.
AfterFailure(attempts) == IF attempts < NotifyAttempts THEN "notify" ELSE "notify_failed"

\* lines 22-30 and endpoints.py line 85: the POST is answered 200
NotifyAccepted(r) ==
    /\ pc[r] = "notify"
    /\ Scheduled(r)
    /\ inbox' = Received(r)
    /\ notify' = [notify EXCEPT ![r].attempts = @ + 1, ![r].last = 200]
    /\ pc' = [pc EXCEPT ![r] = "done"]
    /\ UNCHANGED <<keys, prefs, latency, repo, req, llm, files, push, poll, out>>

\* lines 31-37: the POST is answered with another status
NotifyRefused(r) ==
    /\ pc[r] = "notify"
    /\ Scheduled(r)
    /\ inbox' = Received(r)
    /\ \E status \in Statuses \ {200} :
         notify' = [notify EXCEPT ![r].attempts = @ + 1, ![r].last = status]
    /\ pc' = [pc EXCEPT ![r] = AfterFailure(notify[r].attempts + 1)]
    /\ UNCHANGED <<keys, prefs, latency, repo, req, llm, files, push, poll, out>>

\* lines 35-37: the POST raised (no connection, or no answer in time); the
\* evaluator may have received it or not
NotifyTransportError(r) ==
    /\ pc[r] = "notify"
    /\ Scheduled(r)
    /\ inbox' \in {inbox, Received(r)}
    /\ notify' = [notify EXCEPT ![r].attempts = @ + 1, ![r].last = 0]
    /\ pc' = [pc EXCEPT ![r] = AfterFailure(notify[r].attempts + 1)]
    /\ UNCHANGED <<keys, prefs, latency, repo, req, llm, files, push, poll, out>>

NotifyNext(r) ==
    \/ NotifyAccepted(r)
    \/ NotifyRefused(r)
    \/ NotifyTransportError(r)

\* notify_evaluation raised: endpoints.py line 87
NotifyFailed(r) ==
    /\ pc[r] = "notify_failed"
    /\ Absorb(r, "RetryError")
    /\ UNCHANGED <<keys, prefs, latency, repo, inbox, req, llm, files, push, poll, notify>>

DeployNext(r) ==
    \/ EnablePages(r)
    \/ Settle(r)
    \/ StartNotify(r)
    \/ NotifyFailed(r)


(***************************************************************************)
(* Specifications                                                          *)
(***************************************************************************)
Idle(r0, p0) ==
    /\ inbox = << >>
    /\ latency = {0}
    /\ pc = [ r \in Runs |-> IF r = r0 THEN p0 ELSE "off" ]
    /\ llm = [ r \in Runs |-> IF r = r0 /\ p0 = "llm" THEN LlmEnter ELSE LlmIdle ]
    /\ files = [ r \in Runs |-> EmptyTree ]
    /\ push = [ r \in Runs |-> PushIdle ]
    /\ out = [ r \in Runs |-> OutIdle ]

OneRequest(r0, R) == \E q \in R : req = [ r \in Runs |-> IF r = r0 THEN q ELSE NoRequest ]

\* The pipeline specifications run with one credential and the model list
\* reduced to one model that two providers serve.
OneKey == [ p \in Providers |-> IF p = "openai" THEN "sk-1" ELSE "" ]

OneModel == << "gpt-5" >>

\* The repository after a round 1 whose reply held one page: the placeholder
\* commit and the deploy commit of push_files.
PublishedRepo ==
    LET rq    == CHOOSE q \in Requests : q.round = 1 /\ q.attachments = 0
        reply == [ p \in {"index.html"} |-> GenContent(1) ]
        f     == Put(generate_application(reply, rq), "round", Str(1))
        boot  == create_file(NewRepo)
        tree  == create_git_tree(tree_elements(f), TipTree(boot))
    IN  ref_edit(create_git_commit(boot, commit_message(f), tree, boot.branch),
                 Len(boot.commits) + 1)

\* A whole run of process_build_request, on a repository name that is free,
\* that is taken by an empty repository, by one made by hand or by the
\* repository of an earlier round.
Init ==
    /\ keys = OneKey
    /\ prefs = OneModel
    /\ repo \in {NoRepo, NewRepo, HandMadeRepo, PublishedRepo}
    /\ Idle(1, "start")
    /\ OneRequest(1, Requests)
    /\ poll = [ r \in Runs |-> PollIdle ]
    /\ notify = [ r \in Runs |-> NotifyIdle ]

\* With one run nobody creates the repository between the lookup and
\* create_repository, so CreateRepositoryExists is never enabled.
Next ==
    \E r \in Runs :
        \/ ProcessAttachments(r)
        \/ ProcessAttachmentsRaise(r)
        \/ GetRepositoryFound(r)
        \/ GetRepositoryNone(r)
        \/ GetRepositoryRaise(r)
        \/ GetFiles(r)
        \/ GetFilesPartial(r)
        \/ GenerateDone(r)
        \/ UpdateDone(r)
        \/ GenerationFailed(r)
        \/ CreateRepository(r)
        \/ CreateRepositoryRaise(r)
        \/ AddRound(r)
        \/ PublishFailed(r)
        \/ LLMNext(r)
        \/ PushNext(r)
        \/ DeployNext(r)
        \/ PollNext(r)
        \/ NotifyNext(r)

Spec == Init /\ [][Next]_vars

\* generate_with_fallback alone, for every set of credentials
InitLLM ==
    /\ keys \in [ Providers -> {"", "sk-1"} ]
    /\ prefs \in PrefChoices
    /\ repo = NoRepo
    /\ Idle(1, "llm")
    /\ OneRequest(1, { q \in Requests : q.attachments = 0 })
    /\ poll = [ r \in Runs |-> PollIdle ]
    /\ notify = [ r \in Runs |-> NotifyIdle ]

NextLLM == \E r \in Runs : LLMNext(r)

SpecLLM == InitLLM /\ [][NextLLM]_vars

\* Two runs for the same repository name, each up to the sleep of line 64,
\* on a name that is free, on a repository made by hand and on the
\* repository an earlier round published.
InitPublish ==
    /\ keys = OneKey
    /\ prefs = OneModel
    /\ repo \in {NoRepo, HandMadeRepo, PublishedRepo}
    /\ inbox = << >>
    /\ latency = {0}
    /\ pc = [ r \in Runs |-> "start" ]
    /\ req \in [ Runs -> { q \in Requests : q.attachments = 1 } ]
    /\ llm = [ r \in Runs |-> LlmIdle ]
    /\ files = [ r \in Runs |-> EmptyTree ]
    /\ push = [ r \in Runs |-> PushIdle ]
    /\ out = [ r \in Runs |-> OutIdle ]
    /\ poll = [ r \in Runs |-> PollIdle ]
    /\ notify = [ r \in Runs |-> NotifyIdle ]

NextPublish ==
    \E r \in Runs :
        \/ PrepareNext(r)
        \/ LLMNext(r)
        \/ PushNext(r)
        \/ EnablePages(r)

SpecPublish == InitPublish /\ [][NextPublish]_vars

\* Two publishes for the same repository name that are not on one event
\* loop: the service is started once per worker process, every process
\* builds its own GitHubService with the same token, and nothing in
\* push_files (no lock, no expected parent in ref.edit) knows of the other.
\* Each run has its file set and is about to call push_files; the requests
\* of push_files reach the host in any order.
InitRace ==
    /\ keys = OneKey
    /\ prefs = OneModel
    /\ repo \in {NewRepo, PublishedRepo}
    /\ inbox = << >>
    /\ latency = {0}
    /\ pc = [ r \in Runs |-> "push" ]
    /\ req \in [ Runs -> { q \in Requests : q.attachments = 0 } ]
    /\ llm = [ r \in Runs |-> LlmIdle ]
    /\ files = [ r \in Runs |->
                   Put(generate_application(
                           [ p \in {"index.html"} |-> GenContent(req[r].round) ], req[r]),
                       "round", Str(req[r].round)) ]
    /\ push = [ r \in Runs |-> PushIdle ]
    /\ out = [ r \in Runs |-> OutIdle ]
    /\ poll = [ r \in Runs |-> PollIdle ]
    /\ notify = [ r \in Runs |-> NotifyIdle ]

NextRace ==
    \E r \in Runs :
        \/ PushNext(r)
        \/ PublishFailed(r)

SpecRace == InitRace /\ [][NextRace]_vars

\* The two publishes of SpecRace, each up to the sleep of line 64, and the
\* rest of run 1: while the other run sleeps, run 1 waits for the pages and
\* notifies.
NextRaceNotify ==
    \/ \E r \in Runs :
           \/ PushNext(r)
           \/ PublishFailed(r)
           \/ EnablePages(r)
    \/ Settle(1)
    \/ PollNext(1)
    \/ StartNotify(1)
    \/ NotifyNext(1)
    \/ NotifyFailed(1)

SpecRaceNotify == InitRace /\ [][NextRaceNotify]_vars

\* Task identifiers and addresses with the characters that line 32 replaces.
NameTasks ==
    { << "a" >>, << "a", "-", "b" >>, << "a", "_", "b" >>, << "a", ".", "b" >> }

NameEmails ==
    { << "c", "@", "x" >>, << "b", "-", "c", "@", "x" >>, << "b", ".", "c", "@", "x" >>,
      << "c", "@", "y" >> }

NameRequests ==
    [ secret : {SecretToken}, task : NameTasks, email : NameEmails, round : {1},
      nonce : {"n-1"}, evaluation_url : {"https://eval.example/notify"},
      attachments : {0} ]

\* Two admitted requests with any task and address, on an account that has
\* no repository of either name; each run up to its generation call.
InitName ==
    /\ keys = OneKey
    /\ prefs = OneModel
    /\ repo = NoRepo
    /\ inbox = << >>
    /\ latency = {0}
    /\ pc = [ r \in Runs |-> "start" ]
    /\ req \in [ Runs -> NameRequests ]
    /\ llm = [ r \in Runs |-> LlmIdle ]
    /\ files = [ r \in Runs |-> EmptyTree ]
    /\ push = [ r \in Runs |-> PushIdle ]
    /\ out = [ r \in Runs |-> OutIdle ]
    /\ poll = [ r \in Runs |-> PollIdle ]
    /\ notify = [ r \in Runs |-> NotifyIdle ]

NextName ==
    \E r \in Runs :
        \/ ProcessAttachments(r)
        \/ GetRepositoryNone(r)
        \/ GetRepositoryRaise(r)

SpecName == InitName /\ [][NextName]_vars

\* The default of wait_for_pages_deployment's max_wait
DefaultMaxWait == 300

\* wait_for_pages_deployment alone, with checks that take 0..MaxCheckTime seconds
InitPoll ==
    /\ keys = OneKey
    /\ prefs = OneModel
    /\ repo = PublishedRepo
    /\ inbox = << >>
    /\ latency = 0..MaxCheckTime
    /\ pc = [ r \in Runs |-> IF r = 1 THEN "poll" ELSE "off" ]
    /\ OneRequest(1, { q \in Requests : q.attachments = 0 })
    /\ llm = [ r \in Runs |-> LlmIdle ]
    /\ files = [ r \in Runs |-> EmptyTree ]
    /\ push = [ r \in Runs |-> PushIdle ]
    /\ out = [ r \in Runs |-> OutIdle ]
    /\ \E w \in {0, MaxWait, DefaultMaxWait} :
         poll = [ r \in Runs |-> IF r = 1 THEN PollEnter(w) ELSE PollIdle ]
    /\ notify = [ r \in Runs |-> NotifyIdle ]

NextPoll == \E r \in Runs : PollNext(r)

SpecPoll == InitPoll /\ [][NextPoll]_vars

\* notify_evaluation alone, for every notification of a published commit
InitNotify ==
    /\ keys = OneKey
    /\ prefs = OneModel
    /\ repo = PublishedRepo
    /\ inbox = << >>
    /\ latency = {0}
    /\ pc = [ r \in Runs |-> IF r = 1 THEN "notify" ELSE "off" ]
    /\ OneRequest(1, Requests)
    /\ llm = [ r \in Runs |-> LlmIdle ]
    /\ files = [ r \in Runs |-> EmptyTree ]
    /\ push = [ r \in Runs |-> PushIdle ]
    /\ out = [ r \in Runs |-> OutIdle ]
    /\ poll = [ r \in Runs |-> PollIdle ]
    /\ \E sha \in 1..Len(PublishedRepo.commits) :
         notify = [ r \in Runs |->
                      IF r = 1
                      THEN [ NotifyIdle EXCEPT
                               !.data = eval_response(req[r], sha, pages_url(req[r])) ]
                      ELSE NotifyIdle ]

NextNotify == \E r \in Runs : NotifyNext(r)

SpecNotify == InitNotify /\ [][NextNotify]_vars

\* One request to /build with either secret, and the run it may start.
InitAdmit ==
    /\ keys = OneKey
    /\ prefs = OneModel
    /\ repo \in {NoRepo, PublishedRepo}
    /\ Idle(1, "received")
    /\ OneRequest(1, Submissions)
    /\ poll = [ r \in Runs |-> PollIdle ]
    /\ notify = [ r \in Runs |-> NotifyIdle ]

NextAdmit ==
    \/ \E r \in Runs : BuildEndpointReject(r)
    \/ \E r \in Runs : BuildEndpointAccept(r)
    \/ Next

SpecAdmit == InitAdmit /\ [][NextAdmit]_vars

(***************************************************************************)
(* Properties of generate_with_fallback (SpecLLM)                          *)
(***************************************************************************)
\* The positions of the candidate list whose provider can be called.
UsablePositions == { j \in 1..Len(Candidates(prefs)) : Usable(keys, Candidates(prefs)[j].provider) }

\* The positions called in pass a, in the order of the calls.
PassPositions(calls, a) ==
    LET of_pass == SelectSeq(calls, LAMBDA c : c.attempt = a)
    IN  [ k \in 1..Len(of_pass) |-> of_pass[k].i ]

\* The usable positions below i, in rank order.
UsableBelow(i) ==
    SelectSeq([ j \in 1..(i - 1) |-> j ], LAMBDA j : j \in UsablePositions)

\* C1: the response returned is the one of the first candidate, in preference
\* order and then provider order, whose generate call succeeds: in the pass of
\* the successful call every usable candidate ranked before it was called, in
\* order, and failed; no candidate is called after the success; and the
\* response names the model and the provider of the successful call.
C1_FirstSuccessWins ==
    \A r \in Runs :
        LET calls == llm[r].calls
            n     == Len(calls)
        IN  /\ \A k \in 1..n :
                 /\ calls[k].model = Candidates(prefs)[calls[k].i].model
                 /\ calls[k].provider = Candidates(prefs)[calls[k].i].provider
                 /\ calls[k].ok =>
                      /\ k = n
                      /\ pc[r] = "llm_returned"
                      /\ llm[r].response.model = calls[k].model
                      /\ llm[r].response.provider = calls[k].provider
                      /\ PassPositions(calls, calls[k].attempt)
                           = UsableBelow(calls[k].i) \o << calls[k].i >>
            /\ pc[r] = "llm_returned" => n > 0 /\ calls[n].ok

\* A response of the second-ranked usable candidate, returned in the second
\* pass after the calls before it failed.
C1_Witness ==
    /\ pc[1] = "llm_returned"
    /\ llm[1].attempt = 2
    /\ Len(UsableBelow(llm[1].i)) >= 1
    /\ Len(llm[1].calls) >= 4

\* C2: when every call fails, generate_with_fallback fails after exactly 3
\* passes over the candidate list, having made 3 times as many calls as there
\* are usable candidates, and no pass calls a candidate twice.
C2_ThreePasses ==
    \A r \in Runs :
        LET calls == llm[r].calls
        IN  /\ llm[r].attempt <= 3
            /\ \A j, k \in 1..Len(calls) :
                 (j < k /\ calls[j].attempt = calls[k].attempt) => calls[j].i < calls[k].i
            /\ pc[r] = "llm_failed" =>
                 /\ llm[r].attempt = 3
                 /\ \A k \in 1..Len(calls) : ~calls[k].ok
                 /\ Len(calls) = 3 * Cardinality(UsablePositions)
                 /\ \A a \in 1..3 :
                      PassPositions(calls, a) = UsableBelow(Len(Candidates(prefs)) + 1)

\* The call failed terminally with several usable candidates, one of them for
\* a model that the preference list names twice or that two providers serve.
C2_Witness ==
    /\ pc[1] = "llm_failed"
    /\ Cardinality(UsablePositions) >= 2
    /\ Len(llm[1].calls) >= 6

(***************************************************************************)
(* Properties of push_files (SpecPublish)                                  *)
(***************************************************************************)
\* The runs that are inside push_files or have just left it.
InPush(r) == pc[r] \in PushCallSites \cup {"published", "push_failed"}

\* The tree at the branch tip when the call of run r began.
PriorTree(r) == TreeOf(repo, push[r].prior)

\* The prior tree with the placeholder added.
BootTree(r) == Put(PriorTree(r), PlaceholderPath, PlaceholderContent)

\* The prior tree, with the placeholder if this call wrote it, overlaid with
\* every published file.
CompleteTree(r) ==
    Overlay(IF push[r].bootstrapped THEN BootTree(r) ELSE PriorTree(r),
            push[r].tree_elements)

Wrote(r, w) == \E k \in 1..Len(push[r].writes) : push[r].writes[k] = w

\* C3 as stated: at every point of a push_files call the tip tree is the prior
\* tree or the prior tree overlaid with every published file, and the ref
\* update is the last write of the call.
C3_PriorOrComplete ==
    \A r \in Runs :
        InPush(r) =>
            /\ TipTree(repo) \in { PriorTree(r), Overlay(PriorTree(r), push[r].tree_elements) }
            /\ Wrote(r, "ref.edit") => push[r].writes[Len(push[r].writes)] = "ref.edit"

\* C3: at every point of a push_files call the tip tree is the prior tree
\* until a write moves the branch, the prior tree plus the placeholder alone
\* after the bootstrap commit, and the complete new tree after ref.edit; it
\* never holds only some of the published files, and ref.edit is the last
\* write of a call and the write every returning call ends with.
C3_PriorBootOrComplete ==
    \A r \in Runs :
        InPush(r) =>
            /\ TipTree(repo) =
                 IF Wrote(r, "ref.edit") THEN CompleteTree(r)
                 ELSE IF push[r].bootstrapped THEN BootTree(r)
                 ELSE PriorTree(r)
            /\ Wrote(r, "ref.edit") =>
                 /\ push[r].writes[Len(push[r].writes)] = "ref.edit"
                 /\ pc[r] = "published"
            /\ pc[r] = "published" => Wrote(r, "ref.edit")

\* A call on a branch that held files has returned, the tip now differs from
\* the prior tree, while the other run is under way.
C3_Witness ==
    /\ pc[1] = "published"
    /\ push[1].prior # 0
    /\ TipTree(repo) # PriorTree(1)
    /\ Cardinality(DOMAIN push[1].tree_elements) >= 3
    /\ pc[2] \notin {"off", "start"}

\* C4 as stated: push_files never fails because the placeholder cannot be
\* created on a branch that already holds it.
C4_BootstrapIdempotent ==
    \A r \in Runs :
        ~(pc[r] = "push_failed" /\ out[r].error = "create_file: 422 path exists")

\* C5: when push_files returns on a repository that had no branch, the tip
\* tree holds exactly .init and every path of the file set except "round",
\* each with its published content; on such a repository the call fails only
\* when the host or the transport fails.
C5_EmptyRepoTree ==
    \A r \in Runs :
        /\ (pc[r] = "published" /\ push[r].prior = 0) =>
              /\ DOMAIN TipTree(repo) = {PlaceholderPath} \cup (DOMAIN files[r] \ {"round"})
              /\ TipTree(repo)[PlaceholderPath] = PlaceholderContent
              /\ \A p \in DOMAIN files[r] \ {"round"} : TipTree(repo)[p] = files[r][p]
        /\ (pc[r] = "push_failed" /\ push[r].prior = 0) =>
              out[r].error \in {"transport error", "host or transport error"}

\* A call on a repository without a branch has returned after the bootstrap.
C5_Witness ==
    /\ pc[1] = "published"
    /\ push[1].prior = 0
    /\ push[1].writes = << "create_file", "create_git_tree", "create_git_commit", "ref.edit" >>
    /\ Cardinality(DOMAIN files[1]) >= 4

\* C10: no commit holds a tree entry with path "round", no list of tree
\* elements holds it, and the message of the deploy commit carries the round
\* of the request, also when the reply itself has the key "round".
C10_RoundNotCommitted ==
    /\ \A k \in 1..Len(repo.commits) : "round" \notin DOMAIN repo.commits[k].tree
    /\ \A r \in Runs :
         InPush(r) =>
            /\ "round" \in DOMAIN files[r]
            /\ "round" \notin DOMAIN push[r].tree_elements
            /\ push[r].message.round = Str(req[r].round)
            /\ pc[r] = "published" =>
                 /\ repo.commits[out[r].commit_sha].message
                      = [ text |-> "Deploy application - Round", round |-> Str(req[r].round) ]
                 /\ "round" \notin DOMAIN TipTree(repo)

\* A file set made from a reply that has the key "round" was published.
C10_Witness ==
    /\ pc[2] = "published"
    /\ "round" \in DOMAIN llm[2].response.content
    /\ req[2].round = 2
    /\ repo.commits[out[2].commit_sha].message.round = << "2" >>

(***************************************************************************)
(* Properties of notify_evaluation (SpecNotify, Spec)                      *)
(***************************************************************************)
\* The POSTs the evaluator received from run r, in order.
PostsOf(r) == SelectSeq(inbox, LAMBDA m : m.run = r)

\* C6: notify_evaluation makes at most 5 attempts, every POST carries the
\* same payload, the call returns at the first attempt answered with success
\* and makes no attempt after it, and after 5 failed attempts it raises.
C6_BoundedIdenticalRetries ==
    \A r \in Runs :
        /\ notify[r].attempts <= 5
        /\ Len(PostsOf(r)) <= notify[r].attempts
        /\ \A k \in 1..Len(PostsOf(r)) : PostsOf(r)[k].json = model_dump(notify[r].data)
        /\ pc[r] = "done" => (notify[r].attempts > 0 /\ notify[r].last = 200)
        /\ pc[r] = "notify_failed" => (notify[r].attempts = 5 /\ notify[r].last # 200)
        /\ pc[r] = "notify" => (notify[r].attempts < 5 /\ notify[r].last # 200)

\* The call raised after 5 attempts, several of which reached the evaluator.
C6_Witness ==
    /\ pc[1] = "notify_failed"
    /\ notify[1].attempts = 5
    /\ Len(PostsOf(1)) >= 2

\* C7 as stated: after a response with a 2xx status notify_evaluation has
\* returned with success and does not POST again.
C7_Any2xxConfirms ==
    \A r \in Runs :
        (notify[r].attempts > 0 /\ notify[r].last \in 200..299) => pc[r] = "done"

\* C8 as stated: when a run has completed with success the evaluator has
\* received exactly one POST of that run.
C8_ExactlyOnePost ==
    \A r \in Runs : pc[r] = "done" => Len(PostsOf(r)) = 1

\* C8: when a run has completed with success the evaluator has received at
\* least one and at most 5 POSTs of that run, one per attempt that reached
\* it, every one with the notification of the published commit, and the last
\* attempt was answered 200.
C8_OneNotificationResent ==
    \A r \in Runs :
        pc[r] = "done" =>
            /\ Len(PostsOf(r)) >= 1
            /\ Len(PostsOf(r)) <= 5
            /\ Len(PostsOf(r)) <= notify[r].attempts
            /\ notify[r].last = 200
            /\ out[r].commit_sha = repo.branch
            /\ \A k \in 1..Len(PostsOf(r)) :
                 PostsOf(r)[k].json
                   = eval_response(req[r], out[r].commit_sha, pages_url(req[r]))

\* A run completed with success after the evaluator received three POSTs.
C8_Witness ==
    /\ pc[1] = "done"
    /\ Len(PostsOf(1)) = 3
    /\ out[1].path = "update"

RequiredFiles == {"index.html", "LICENSE", "README.md"}

\* C11 as stated: the file set handed to push_files holds index.html, LICENSE
\* and README.md, after generate_application and after update_application.
C11_RequiredFilesPresent ==
    \A r \in Runs : pc[r] = "push" => RequiredFiles \subseteq DOMAIN files[r]

\* The repositories a run of Spec starts with.
StartRepos == {NoRepo, NewRepo, HandMadeRepo, PublishedRepo}

\* Run r ended, or is about to end, because generate_with_fallback raised.
GenerationGaveUp(r) ==
    \/ pc[r] = "llm_failed"
    \/ pc[r] = "absorbed" /\ out[r].error = "All LLM providers failed"

\* C12: when generate_with_fallback has raised, the run has written nothing:
\* a repository that the lookup did not find still does not exist, the
\* repository has no commit and no branch position it did not start with,
\* hosting was not enabled, push_files was not entered, and the evaluator
\* has received nothing.
C12_NoWriteAfterGenerationFailure ==
    \A r \in Runs :
        GenerationGaveUp(r) =>
            /\ repo \in StartRepos
            /\ ~out[r].found => repo = NoRepo
            /\ ~repo.pages
            /\ push[r] = PushIdle
            /\ out[r].commit_sha = 0
            /\ out[r].pages_url = << >>
            /\ notify[r] = NotifyIdle
            /\ inbox = << >>

\* The run was absorbed after the generation for a repository that does not
\* exist failed in every pass.
C12_Witness ==
    /\ pc[1] = "absorbed"
    /\ out[1].error = "All LLM providers failed"
    /\ out[1].path = "generate"
    /\ ~out[1].found

\* Run r is a round 1 whose lookup found no repository.
FreshRoundOne(r) == req[r].round = 1 /\ out[r].path = "generate" /\ ~out[r].found

\* The positions of a run after push_files returned.
AfterPublish == {"published", "settle", "poll", "poll_sleep", "poll_returned",
                 "notify", "notify_failed", "done"}

\* The deploy commits: those whose tree holds the three required files.
DeployCommits == { k \in 1..Len(repo.commits) : RequiredFiles \subseteq DOMAIN repo.commits[k].tree }

\* C13 as stated: for a round 1 without a repository, the repository is
\* created before the generation is invoked, and publish produces exactly one
\* commit, whose tree holds index.html, LICENSE and README.md.
C13_CreatedThenGeneratedOneCommit ==
    \A r \in Runs :
        FreshRoundOne(r) =>
            /\ pc[r] \in {"llm", "llm_returned"} => repo.exists
            /\ pc[r] \in AfterPublish =>
                 /\ Len(repo.commits) = 1
                 /\ DeployCommits = {1}

\* C13: for a round 1 without a repository the generation is invoked while
\* the repository does not exist yet, then the repository is created, then
\* publish makes the placeholder commit and on top of it exactly one deploy
\* commit, whose tree holds index.html, LICENSE and README.md, and moves the
\* branch to it; enable_pages returns https://{account}.github.io/{repo}/;
\* and every notification received carries a non-empty repo_url, the sha of
\* the deploy commit and that URL.
C13_GeneratedCreatedPublished ==
    \A r \in Runs :
        FreshRoundOne(r) =>
            /\ pc[r] \in {"llm", "llm_returned", "llm_failed", "create_repo"} => repo = NoRepo
            /\ pc[r] \in {"round", "push"} => repo = NewRepo /\ RequiredFiles \subseteq DOMAIN files[r]
            /\ pc[r] \in AfterPublish =>
                 /\ repo.exists
                 /\ Len(repo.commits) = 2
                 /\ repo.commits[1].tree = [ p \in {PlaceholderPath} |-> PlaceholderContent ]
                 /\ DeployCommits = {2}
                 /\ repo.commits[2].parent = 1
                 /\ repo.branch = 2
                 /\ out[r].commit_sha = 2
            /\ pc[r] \in AfterPublish \ {"published"} =>
                 out[r].pages_url
                   = << "https://", "acct", ".github.io/", "t", "-", "1", "-", "a", "-", "b", "/" >>
            /\ \A k \in 1..Len(PostsOf(r)) :
                 /\ PostsOf(r)[k].json.repo_url
                      = << "https://github.com/", "acct", "/", "t", "-", "1", "-", "a", "-", "b" >>
                 /\ PostsOf(r)[k].json.commit_sha = 2
                 /\ PostsOf(r)[k].json.pages_url = out[r].pages_url
            /\ pc[r] = "done" => Len(PostsOf(r)) >= 1

\* The run is done: every call was answered with success the first time.
C13_Witness ==
    /\ FreshRoundOne(1)
    /\ pc[1] = "done"
    /\ repo.pages
    /\ notify[1].attempts = 1
    /\ Len(inbox) = 1

\* C14 as stated: after the publish of an update, every file that was at the
\* branch tip before, that the reply did not regenerate and that is not
\* README.md is still at the tip with its previous content.
C14_UnregeneratedFilesKept ==
    \A r \in Runs :
        (pc[r] = "published" /\ out[r].path = "update") =>
            \A p \in DOMAIN PriorTree(r) :
                (p \notin DOMAIN llm[r].response.content /\ p # "README.md") =>
                    /\ p \in DOMAIN TipTree(repo)
                    /\ TipTree(repo)[p] = PriorTree(r)[p]

\* C15: a run is on the Generated branch exactly when its round is 1 or the
\* lookup found no repository, and has then fetched no files; otherwise it is
\* on the Updated branch, entered through get_files with files of the branch
\* tip; and a run that has taken one branch never changes to the other.
C15_BranchChoice ==
    /\ [](\A r \in Runs :
            /\ out[r].path = "generate" =>
                 /\ req[r].round = 1 \/ ~out[r].found
                 /\ out[r].existing = EmptyTree
            /\ out[r].path = "update" =>
                 /\ req[r].round # 1 /\ out[r].found
                 /\ DOMAIN out[r].existing \subseteq DOMAIN TipTree(repo)
            /\ pc[r] = "get_files" =>
                 /\ req[r].round # 1 /\ out[r].found
                 /\ out[r].path = None
            /\ pc[r] \in {"llm", "llm_returned", "create_repo", "round", "push"} =>
                 out[r].path = IF req[r].round = 1 \/ ~out[r].found
                               THEN "generate" ELSE "update")
    /\ [][\A r \in Runs : out[r].path # None => out'[r].path = out[r].path]_vars

\* An update in round 2 is about to publish the files it fetched and merged.
C15_Witness ==
    /\ pc[1] = "push"
    /\ out[1].path = "update"
    /\ req[1].round = 2
    /\ "LICENSE" \in DOMAIN files[1]

\* The step of process_build_request a position belongs to.
StepOf(p) ==
    CASE p \in {"off", "start"} -> "admitted"
      [] p = "lookup" -> "lookup"
      [] p = "get_files" -> "fetch"
      [] p \in {"llm", "llm_returned", "llm_failed"} -> "generation"
      [] p = "create_repo" -> "create"
      [] p \in {"round", "push", "push_failed"} \cup PushCallSites -> "publish"
      [] p = "published" -> "hosting"
      [] p = "settle" -> "settle"
      [] p \in {"poll", "poll_sleep", "poll_returned"} -> "polling"
      [] p \in {"notify", "notify_failed"} -> "notification"
      [] p = "done" -> "done"
      [] OTHER -> "absorbed"

\* The step that may come after a step. The relation has no cycle.
Follows ==
    { << "admitted", "lookup" >>, << "lookup", "fetch" >>, << "lookup", "generation" >>,
      << "fetch", "generation" >>, << "generation", "create" >>,
      << "generation", "publish" >>, << "create", "publish" >>,
      << "publish", "hosting" >>, << "hosting", "settle" >>, << "settle", "polling" >>,
      << "polling", "notification" >>, << "notification", "done" >> }
    \cup { << st, "absorbed" >> :
             st \in {"admitted", "lookup", "generation", "create", "publish", "notification"} }

\* C16: a run goes from step to step in the order lookup, generation or
\* update, publish, hosting enablement, settle delay, polling, notification
\* (or ends absorbed), one step at a time and never back, so no step runs
\* twice; and every notification prepared or received carries the sha that
\* this run's push_files returned, which is a deploy commit of the repository.
C16_StrictStepOrder ==
    /\ [][\A r \in Runs :
            \/ StepOf(pc'[r]) = StepOf(pc[r])
            \/ << StepOf(pc[r]), StepOf(pc'[r]) >> \in Follows]_vars
    /\ [](\A r \in Runs :
            /\ StepOf(pc[r]) \in {"polling", "notification", "done"} =>
                 notify[r].data.commit_sha = out[r].commit_sha
            /\ StepOf(pc[r]) \in {"hosting", "settle", "polling", "notification", "done"} =>
                 /\ out[r].commit_sha \in 1..Len(repo.commits)
                 /\ repo.commits[out[r].commit_sha].message.text = "Deploy application - Round"
            /\ StepOf(pc[r]) \notin {"notification", "done", "absorbed"} => PostsOf(r) = << >>
            /\ \A k \in 1..Len(PostsOf(r)) :
                 /\ PostsOf(r)[k].json.commit_sha = out[r].commit_sha
                 /\ out[r].commit_sha # 0)

\* An update has gone through every step.
C16_Witness ==
    /\ pc[1] = "done"
    /\ out[1].path = "update"
    /\ out[1].commit_sha = repo.branch
    /\ Len(PostsOf(1)) >= 1

\* Spec with the event loop running a run that can take a step: a call that
\* is awaited returns or raises, a sleep ends.
SpecLive == Spec /\ WF_vars(Next)

\* C17: a run that has passed publish and hosting enablement makes a
\* notification attempt, whatever wait_for_pages_deployment returns; after a
\* wait that returned false the run goes on to notify_evaluation, with the
\* notification prepared before the wait.
C17_NotifiedWhetherReachableOrNot ==
    /\ \A r \in Runs : (pc[r] = "settle") ~> (notify[r].attempts >= 1)
    /\ \A r \in Runs :
         (pc[r] = "poll_returned" /\ poll[r].result = "false") ~> (notify[r].attempts >= 1)
    /\ [][\A r \in Runs :
            (pc[r] = "poll_returned" /\ pc'[r] # pc[r]) =>
                /\ pc'[r] = "notify"
                /\ notify'[r] = notify[r]]_vars

\* The evaluator received the notification of a deployment that the wait
\* did not find reachable.
C17_Witness ==
    /\ poll[1].result = "false"
    /\ notify[1].attempts >= 1
    /\ Len(PostsOf(1)) >= 1
    /\ pc[1] = "done"

\* C18: enable_pages returns for every outcome of the enable request, with
\* the URL made of the account name and the repository name alone, and the
\* run goes on to the settle delay, the wait and the notification: an
\* outcome other than success neither ends the run nor changes the URL.
C18_EnablePagesNeverFails ==
    /\ [][\A r \in Runs :
            (pc[r] = "published" /\ pc'[r] # pc[r]) =>
                /\ pc'[r] = "settle"
                /\ out'[r].error = None
                /\ out'[r].pages_url
                     = << "https://" >> \o GithubUsername \o << ".github.io/" >>
                          \o repo_name(req[r]) \o << "/" >>]_vars
    /\ [](\A r \in Runs :
            StepOf(pc[r]) \in {"settle", "polling", "notification", "done"} =>
                /\ out[r].pages_url
                     = << "https://", "acct", ".github.io/", "t", "-", "1", "-", "a", "-", "b", "/" >>
                /\ StepOf(pc[r]) # "settle" => notify[r].data.pages_url = out[r].pages_url)

\* The run is done although hosting was not enabled: the enable request was
\* answered with another status or raised.
C18_Witness ==
    /\ pc[1] = "done"
    /\ ~repo.pages
    /\ Len(PostsOf(1)) >= 1
    /\ PostsOf(1)[1].json.pages_url # << >>

\* The errors a run ends with before it notifies, and those of push_files.
PushErrors == {"transport error", "host or transport error", "create_file: 422 path exists"}

\* C19: a run that an error has ended stays ended and changes nothing any
\* more; a position where a call has raised is followed by the absorbed end
\* only; an error is recorded only for a run that has raised; and the steps
\* after the failing one were not attempted: after an error before or in
\* publish there is no URL, no wait and no POST, and after an error before
\* publish push_files was not entered and the repository has no commit of
\* the run.
C19_ErrorsAbsorbed ==
    /\ [][\A r \in Runs :
            /\ pc[r] = "absorbed" => (pc'[r] = "absorbed" /\ UNCHANGED vars)
            /\ (pc[r] \in {"llm_failed", "push_failed", "notify_failed"} /\ pc'[r] # pc[r]) =>
                 (pc'[r] = "absorbed" /\ repo' = repo /\ inbox' = inbox)]_vars
    /\ [](\A r \in Runs :
            /\ out[r].error # None => pc[r] \in {"push_failed", "absorbed"}
            /\ pc[r] = "absorbed" =>
                 /\ out[r].error # None
                 /\ out[r].error # "RetryError" =>
                      /\ PostsOf(r) = << >>
                      /\ notify[r] = NotifyIdle
                      /\ poll[r] = PollIdle
                      /\ out[r].pages_url = << >>
                      /\ ~repo.pages
                 /\ out[r].error \notin PushErrors \cup {"RetryError"} =>
                      /\ out[r].commit_sha = 0
                      /\ push[r] = PushIdle
                      /\ repo \in StartRepos)

\* push_files raised after the bootstrap commit and the run was absorbed.
C19_Witness ==
    /\ pc[1] = "absorbed"
    /\ out[1].error = "host or transport error"
    /\ repo.branch # 0
    /\ DOMAIN TipTree(repo) = {PlaceholderPath}

\* Run r's push_files returned a sha that the default branch no longer
\* reaches.
Lost(r) ==
    /\ pc[r] = "published"
    /\ out[r].commit_sha # 0
    /\ ~IsAncestor(repo, out[r].commit_sha, repo.branch)

C20_OneLoopKeepsCommits == \A r \in Runs : ~Lost(r)

\* The positions where a run has a request to another host outstanding.
NetworkCalls ==
    {"start", "llm", "lookup", "get_files", "create_repo", "published", "poll", "notify"}
        \cup PushCallSites

\* A run that the loop can resume: admitted and not yet begun, or in a
\* generation call.
Resumable(q) == pc[q] \in {"start", "llm"}

\* C21: while a run has any network call outstanding (generation,
\* repository read or write, hosting enable, reachability check, POST),
\* another admitted run on the same loop can take a step.
C21_EveryNetworkCallSuspends ==
    \A r \in Runs :
        pc[r] \in NetworkCalls =>
            \A q \in Runs \ {r} :
                Resumable(q) => ENABLED (PrepareNext(q) \/ LLMNext(q))

\* The same for the calls the code awaits only: this one holds.
C21_AwaitedCallsSuspend ==
    \A r \in Runs :
        pc[r] \in NetworkCalls \cap Awaiting =>
            \A q \in Runs \ {r} :
                Resumable(q) => ENABLED (PrepareNext(q) \/ LLMNext(q))

\* C22: create_repository makes the repository when the name is free and
\* returns the repository that is there when the name is taken, leaving it
\* as it is; at every call, also one for a name that another run took after
\* this run's lookup, the return without an error is possible.
C22_CreateRepositoryIdempotent ==
    /\ [][\A r \in Runs :
            (pc[r] = "create_repo" /\ pc'[r] = "round") =>
                /\ repo'.exists
                /\ repo.exists => repo' = repo
                /\ ~repo.exists => repo' = NewRepo
                /\ out'[r].error = None
                /\ files'[r] = files[r]]_vars
    /\ [](\A r \in Runs :
            pc[r] = "create_repo" =>
                ENABLED ((CreateRepository(r) \/ CreateRepositoryExists(r))
                            /\ pc'[r] = "round"))

\* Both runs found no repository; run 1 created it, published and sleeps; run 2
\* called create_repository for the taken name and went on.
C22_Witness ==
    /\ ~out[1].found /\ ~out[2].found
    /\ out[1].path = "generate" /\ out[2].path = "generate"
    /\ pc[1] = "settle"
    /\ pc[2] = "round"
    /\ out[2].error = None
    /\ repo.exists

\* The positions of a request that has no run.
NoRun == {"off", "received", "rejected"}

\* C23: a request with a wrong secret is answered 403 and never gets a run:
\* it stays rejected and nothing of the pipeline is touched; a request with
\* the right secret is answered when its run has not taken a step, and
\* the response, once made, is never changed by anything the run does.
C23_AdmissionSynchronous ==
    /\ [][\A r \in Runs :
            /\ pc[r] = "rejected" => UNCHANGED vars
            /\ (pc[r] = "received" /\ pc'[r] # pc[r]) =>
                 /\ pc'[r] = IF req[r].secret = SecretToken THEN "start" ELSE "rejected"
                 /\ out'[r].response # None
                 /\ UNCHANGED <<repo, inbox, llm, files, push, poll, notify>>
            /\ out[r].response # None => out'[r].response = out[r].response]_vars
    /\ [](\A r \in Runs :
            /\ out[r].response = "403 Invalid secret" <=> pc[r] = "rejected"
            /\ pc[r] = "rejected" => req[r].secret # SecretToken
            /\ out[r].response = "200 success" <=> pc[r] \notin NoRun
            /\ pc[r] \notin NoRun => req[r].secret = SecretToken
            /\ pc[r] \in NoRun =>
                 /\ llm[r] = LlmIdle /\ files[r] = EmptyTree /\ push[r] = PushIdle
                 /\ poll[r] = PollIdle /\ notify[r] = NotifyIdle
                 /\ [ out[r] EXCEPT !.response = None ] = OutIdle)
    /\ []((\A r \in Runs : pc[r] \in NoRun) => (repo \in StartRepos /\ inbox = << >>))

\* The client was told "success" and the run ended in an absorbed error.
C23_Witness ==
    /\ pc[1] = "absorbed"
    /\ out[1].error # None
    /\ out[1].response = "200 success"

\* A request with a wrong secret was rejected.
C23_WitnessRejected ==
    /\ pc[1] = "rejected"
    /\ req[1].secret # SecretToken

\* The position a pass has come to: past every candidate for a finished
\* pass, past the successful call for the pass that returned, else the
\* candidate visited next.
PassLimit(r, a) ==
    IF a < llm[r].attempt THEN Len(Candidates(prefs)) + 1
    ELSE IF pc[r] = "llm_returned" THEN llm[r].i + 1
    ELSE llm[r].i

\* C24: within a pass a failed call only moves the pass to the next
\* candidate; the calls of every pass are the usable candidates the pass has
\* come by, each once and in order, so after a failure every later usable
\* candidate is still called until one succeeds or the list ends; and a
\* candidate whose provider is not configured or not available is passed
\* over without a generate call.
C24_FailureNeverAbortsPass ==
    /\ [][\A r \in Runs :
            (pc[r] = "llm" /\ llm[r].i <= Len(Candidates(prefs)) /\ llm'[r] # llm[r]) =>
                LET c     == Candidates(prefs)[llm[r].i]
                    calls == llm'[r].calls
                IN  IF Usable(keys, c.provider)
                    THEN /\ Len(calls) = Len(llm[r].calls) + 1
                         /\ calls[Len(calls)].i = llm[r].i
                         /\ calls[Len(calls)].attempt = llm[r].attempt
                         /\ ~calls[Len(calls)].ok =>
                              /\ pc'[r] = "llm"
                              /\ llm'[r].i = llm[r].i + 1
                              /\ llm'[r].attempt = llm[r].attempt
                         /\ calls[Len(calls)].ok => pc'[r] = "llm_returned"
                    ELSE /\ calls = llm[r].calls
                         /\ pc'[r] = "llm"
                         /\ llm'[r].i = llm[r].i + 1]_vars
    /\ [](\A r \in Runs :
            /\ \A k \in 1..Len(llm[r].calls) :
                 Usable(keys, llm[r].calls[k].provider)
            /\ pc[r] \in {"llm", "llm_returned", "llm_failed"} =>
                 \A a \in 1..llm[r].attempt :
                     PassPositions(llm[r].calls, a) = UsableBelow(PassLimit(r, a)))

\* A pass in which a call failed, a candidate without credential was passed
\* over, and a later candidate was called and answered.
C24_Witness ==
    /\ pc[1] = "llm_returned"
    /\ \E j, k \in 1..Len(llm[1].calls) :
         /\ j < k
         /\ llm[1].calls[j].attempt = llm[1].calls[k].attempt
         /\ ~llm[1].calls[j].ok
         /\ llm[1].calls[k].ok
         /\ \E m \in (llm[1].calls[j].i + 1)..(llm[1].calls[k].i - 1) :
              m \notin UsablePositions

\* The paths push_files publishes: every key but "round".
PublishedPaths(r) == DOMAIN files[r] \ {"round"}

\* C25: push_files resolves the branch to its tip T (the reference read on
\* line 56 or 79 is the branch, the commit of line 57 or 80 is that
\* reference), and when it returns, the branch points to the new commit,
\* whose one parent is T and whose tree is T's tree with every published
\* path set to the published content and every other path as in T.
C25_CommitOnResolvedTip ==
    [][\A r \in Runs :
         /\ (pc[r] \in {"push_ref", "push_reref"} /\ pc'[r] \in {"push_base", "push_rebase"}) =>
              push'[r].ref = repo.branch
         /\ (pc[r] \in {"push_base", "push_rebase"} /\ pc'[r] = "push_tree") =>
              push'[r].base_commit = push[r].ref
         /\ (pc[r] = "push_edit" /\ pc'[r] = "published") =>
              LET T  == push[r].base_commit
                  tT == TreeOf(repo, T)
                  c  == repo'.commits[repo'.branch]
              IN  /\ T # 0
                  /\ repo'.branch = out'[r].commit_sha
                  /\ repo'.branch # T
                  /\ c.parent = T
                  /\ DOMAIN c.tree = DOMAIN tT \cup PublishedPaths(r)
                  /\ \A p \in DOMAIN c.tree :
                       c.tree[p] = IF p \in PublishedPaths(r) THEN files[r][p] ELSE tT[p]]_vars

\* Run 2 published on the commit of run 1: the tip has run 1's commit as
\* parent, a page that run 2 replaced and a file that neither run published.
C25_Witness ==
    /\ pc[2] = "published"
    /\ out[1].commit_sha # 0
    /\ repo.branch = out[2].commit_sha
    /\ repo.commits[repo.branch].parent = out[1].commit_sha
    /\ "logo.png" \in DOMAIN TipTree(repo)
    /\ "logo.png" \notin DOMAIN files[2]
    /\ TipTree(repo)["index.html"] = files[2]["index.html"]
    /\ TipTree(repo)["index.html"] # TreeOf(repo, out[1].commit_sha)["index.html"]

\* C26: the lookup ends in one of three ways. Not found: the run takes the
\* Generated branch, and only when the repository is not there. Found: only
\* when it is there. Any other failure: the run is absorbed at once, with no
\* generation call made and the repository as it was, and never moves again;
\* a repository that is there is never taken for absent.
C26_LookupFailureIsNotAbsence ==
    /\ [][\A r \in Runs :
            (pc[r] = "lookup" /\ pc'[r] # pc[r]) =>
                \/ /\ pc'[r] = "absorbed"
                   /\ out'[r].error = "get_repository error"
                   /\ out'[r].path = None
                   /\ llm'[r] = LlmIdle
                   /\ repo' = repo
                \/ /\ ~repo.exists
                   /\ ~out'[r].found
                   /\ out'[r].path = "generate"
                   /\ pc'[r] = "llm"
                   /\ out'[r].error = None
                \/ /\ repo.exists
                   /\ out'[r].found
                   /\ out'[r].error = None
                   /\ pc'[r] \in {"llm", "get_files"}]_vars
    /\ [](\A r \in Runs :
            (pc[r] = "absorbed" /\ out[r].error = "get_repository error") =>
                /\ llm[r] = LlmIdle
                /\ files[r] = EmptyTree
                /\ push[r] = PushIdle
                /\ out[r].path = None
                /\ repo \in StartRepos)

\* The lookup of a repository that exists failed, and the run was absorbed
\* without generating or creating anything.
C26_Witness ==
    /\ pc[1] = "absorbed"
    /\ out[1].error = "get_repository error"
    /\ repo = PublishedRepo
    /\ req[1].round = 1

\* The place of a step in the one order of the steps.
Rank(st) ==
    CASE st = "admitted" -> 0 [] st = "lookup" -> 1 [] st = "fetch" -> 2
      [] st = "generation" -> 3 [] st = "create" -> 4 [] st = "publish" -> 5
      [] st = "hosting" -> 6 [] st = "settle" -> 7 [] st = "polling" -> 8
      [] st = "notification" -> 9 [] OTHER -> 10

Ended(r) == pc[r] \in {"done", "absorbed"}

\* C27: when every step that can be taken is taken in the end, a run that
\* was started reaches the successful or the absorbed end and stays there;
\* on the way it makes at most 3 passes of the generation cascade, polls
\* only while its clock is below max_wait (so the clock stays below max_wait
\* plus one check and one sleep), POSTs at most 5 times, and never goes back
\* to an earlier step.
C27_RunTerminates ==
    /\ \A r \in Runs : (pc[r] = "start") ~> Ended(r)
    /\ [](\A r \in Runs :
            /\ llm[r].attempt <= CascadeAttempts
            /\ \A k \in 1..Len(llm[r].calls) : llm[r].calls[k].attempt <= CascadeAttempts
            /\ notify[r].attempts <= NotifyAttempts
            /\ Len(PostsOf(r)) <= NotifyAttempts
            /\ poll[r].max_wait \in {0, MaxWait}
            /\ poll[r].now < poll[r].max_wait + poll[r].last_check + PollInterval
            /\ pc[r] = "poll_sleep" => poll[r].now < poll[r].max_wait + poll[r].last_check)
    /\ [][\A r \in Runs :
            /\ Rank(StepOf(pc'[r])) >= Rank(StepOf(pc[r]))
            /\ Ended(r) => pc'[r] = pc[r]]_vars

\* A run that ended after the longest way: a wait that ran out and five
\* POSTs, the last of which failed too.
C27_Witness ==
    /\ pc[1] = "absorbed"
    /\ out[1].error = "RetryError"
    /\ notify[1].attempts = NotifyAttempts
    /\ poll[1].result = "false"

\* Run r is about to move the branch, and path p of its file set is one that
\* update_application merged in from the files fetched before generation;
\* meanwhile run q published a commit, still on the branch, that changed p
\* from that content to the one the branch holds now.
MergedOverNewer(r, q, p) ==
    /\ pc[r] = "push_edit"
    /\ out[r].path = "update"
    /\ p \in PublishedPaths(r) \ DOMAIN llm[r].response.content
    /\ out[q].commit_sha # 0
    /\ IsAncestor(repo, out[q].commit_sha, repo.branch)
    /\ LET cq    == repo.commits[out[q].commit_sha]
           older == TreeOf(repo, cq.parent)
       IN  /\ p \in DOMAIN older
           /\ p \in DOMAIN cq.tree
           /\ cq.tree[p] # older[p]
           /\ older[p] = files[r][p]
           /\ TipTree(repo)[p] = cq.tree[p]

\* C28: the publish of an Updated run does not put back, for a path it
\* merged in from the files it fetched, the content it fetched when another
\* run has published newer content for the path since: the move of the
\* branch leaves such a path as the other run published it.
C28_NoLostUpdate ==
    [][\A r \in Runs : \A q \in Runs \ {r} : \A p \in GenPaths \ {"round"} :
         (MergedOverNewer(r, q, p) /\ pc'[r] = "published") =>
             TipTree(repo')[p] = TipTree(repo)[p]]_vars

C30_FailedPushLeavesBranch ==
    \A r \in Runs :
        pc[r] = "push_failed" => repo.branch = push[r].prior

\* C31: the placeholder is written only to a repository whose default
\* branch has no commit: the step of push_files that creates .init is taken
\* only when the branch is missing, and a call that wrote the placeholder
\* began on a missing branch.
C31_PlaceholderOnlyOnEmptyBranch ==
    /\ [][\A r \in Runs :
            (pc[r] = "push_init" /\ pc'[r] = "push_reref") => repo.branch = 0]_vars
    /\ [](\A r \in Runs : push[r].bootstrapped => push[r].prior = 0)

\* Both runs have derived the name of their repository.
Named == \A r \in Runs : out[r].repo_name # << >>

\* request.email.split('@')[0]
LocalPart(rq) == Before(rq.email, "@")

\* C32: the name is the same for equal pairs of task and local part and
\* different for different pairs.
C32_RepoNameSeparates ==
    \A r, q \in Runs :
        Named =>
            ( out[r].repo_name = out[q].repo_name
                <=> ( req[r].task = req[q].task /\ LocalPart(req[r]) = LocalPart(req[q]) ) )

\* The half that holds: equal pairs give equal names, and the name of a run
\* is the value of line 32 for its request.
C32_SameInputsSameName ==
    \A r, q \in Runs :
        /\ out[r].repo_name # << >> => out[r].repo_name = repo_name(req[r])
        /\ (Named /\ req[r].task = req[q].task /\ LocalPart(req[r]) = LocalPart(req[q])) =>
               out[r].repo_name = out[q].repo_name

====
